---- MODULE Spec2Model ----
(***************************************************************************)
(* Shape-level model of the EEGformer modules of                           *)
(* archive/ModelDevelopment/model.py.  A tensor is its shape (a sequence   *)
(* of naturals); a module object is a record of the attributes its         *)
(* __init__ sets; a constructor or forward call that raises is an outcome  *)
(* with ok = FALSE naming the exception.  The torch operations the code    *)
(* calls (Conv1d, Dropout, Linear, MultiheadAttention, LayerNorm, matmul,  *)
(* reshape, view, permute, broadcasting add) are modelled by their shape   *)
(* rules and their argument checks.                                        *)
(* Dropout probabilities are kept in tenths: 1 is 0.1, 10 is 1.0, 11 is    *)
(* 1.1.                                                                    *)
(* The second part models DataCollection/data_collection.py: the script's  *)
(* top-level statements, the coroutine eeg, the two SDK callbacks and the  *)
(* SIGINT handler, as processes that interleave statement by statement.    *)
(***************************************************************************)
EXTENDS Integers, Sequences, FiniteSets, TLC

VARIABLES
    args,   \* the arguments of the last constructor call (cls names the class)
    obj,    \* what that call produced: the module object, or the exception
    inp,    \* the shape of the tensor last given to obj.forward
    out,    \* the outcome of that forward call
    calls,  \* the sub-module calls that forward call made, in order
    script,     \* the data-collection process: its position and exit
    subscribed, \* the SDK streams with a callback registered
    handling,   \* the callback invocation in progress, per stream
    delivered,  \* how many times the SDK has invoked a callback
    closed,     \* which of client and write_api have been closed
    log         \* what eeg and the callbacks have done, in order

session == <<args, obj, inp, out, calls>>
collection == <<script, subscribed, handling, delivered, closed, log>>
vars == <<args, obj, inp, out, calls,
          script, subscribed, handling, delivered, closed, log>>

\* Bounds of the model.
MaxDim == 2
MaxTime == 4
MaxLayers == 2

Dims == 1..MaxDim
Times == 1..MaxTime
Batches == {1, 2}
KernelSizes == {1, 2, 3}
LayerCounts == (-1)..MaxLayers
HeadCounts == {1, 2}
FfDims == {2}
\* 0.0, 0.1, 1.0 and 1.1, in tenths.
DropoutValues == {0, 1, 10, 11}
VerboseValues == {0, 1}

\* The tensors given to forward, by rank.
Shapes1 == {<<a>> : a \in Dims}
Shapes2 == {<<b, a>> : b \in Batches, a \in Dims}
Shapes3 == {<<b, c, a>> : b \in Batches, c \in Dims, a \in Dims}
Shapes4 == {<<b, c, d, a>> : b \in Batches, c \in Dims, d \in Dims, a \in Dims}

\* The default dropout arguments of the constructors, in tenths.
CNN1D_default_dropout == 1
TransformerBlock_default_dropout == 11
Transformer_default_dropout == 1
EEGformerEncoder_default_dropout == 11

(***************************************************************************)
(* Outcomes.                                                               *)
(***************************************************************************)
Ok(s) == [ok |-> TRUE, shape |-> s, err |-> "", at |-> ""]
Raise(e, where) == [ok |-> FALSE, shape |-> <<>>, err |-> e, at |-> where]
NoCall == [ok |-> FALSE, shape |-> <<>>, err |-> "", at |-> "not called"]
NoObject == [ok |-> FALSE, err |-> "", at |-> "not constructed", cls |-> ""]
CtorRaise(c, e, where) == [ok |-> FALSE, err |-> e, at |-> where, cls |-> c]

\* The statement after the one that gave r: an exception in r ends the call.
Then(r, next) == IF r.ok THEN next ELSE r

RECURSIVE Numel(_)
Numel(s) == IF s = <<>> THEN 1 ELSE Head(s) * Numel(Tail(s))

Last(s) == s[Len(s)]
Front(s) == SubSeq(s, 1, Len(s) - 1)

(***************************************************************************)
(* torch operations, by shape.                                             *)
(***************************************************************************)
\* Tensor.permute(*dims): dims are 0-based and must number the tensor's axes.
Permute(s, dims) ==
    IF Len(dims) # Len(s)
    THEN Raise("RuntimeError", "permute: number of dims don't match")
    ELSE Ok([i \in 1..Len(dims) |-> s[dims[i] + 1]])

\* Tensor.view(*shape) / reshape(*shape) without -1: the element count is kept.
View(s, shape) ==
    IF Numel(shape) # Numel(s)
    THEN Raise("RuntimeError", "view: shape is invalid for input size")
    ELSE Ok(shape)

\* Tensor.reshape(-1, *rest): the leading dimension is inferred.
ReshapeInfer(s, rest) ==
    IF \E i \in 1..Len(rest) : rest[i] < 0
    THEN Raise("RuntimeError", "reshape: invalid shape dimension")
    ELSE IF Numel(rest) = 0
    THEN Raise("RuntimeError", "reshape: unspecified dimension is ambiguous")
    ELSE IF Numel(s) % Numel(rest) # 0
    THEN Raise("RuntimeError", "reshape: shape is invalid for input size")
    ELSE Ok(<<Numel(s) \div Numel(rest)>> \o rest)

\* torch.matmul(x, w) for x of rank >= 2 and a matrix w of shape (n, m).
Matmul(s, w) ==
    IF Last(s) # w[1]
    THEN Raise("RuntimeError", "matmul: shapes cannot be multiplied")
    ELSE Ok(Front(s) \o <<w[2]>>)

\* Whether shape p broadcasts to shape s without s changing (x += p, and
\* x + p for a p of no higher rank with no axis wider than x's).
BroadcastsTo(p, s) ==
    /\ Len(p) <= Len(s)
    /\ \A i \in 1..Len(p) :
          LET d == s[Len(s) - Len(p) + i] IN p[i] = d \/ p[i] = 1

AddBroadcast(s, p) ==
    IF BroadcastsTo(p, s)
    THEN Ok(s)
    ELSE Raise("RuntimeError", "add: size of tensors must match")

\* nn.Linear(in_features, out_features).
Linear(i, o) == [kind |-> "Linear", in_features |-> i, out_features |-> o]

Linear_forward(m, s) ==
    IF s = <<>> \/ Last(s) # m.in_features
    THEN Raise("RuntimeError", "linear: mat1 and mat2 shapes cannot be multiplied")
    ELSE Ok(Front(s) \o <<m.out_features>>)

\* nn.Dropout(p): p outside [0, 1] is a ValueError; p = 1.0 is accepted.
Dropout_accepts(p) == p >= 0 /\ p <= 10

\* nn.Conv1d(in_channels, out_channels, kernel_size, padding="valid", groups):
\* both channel counts must be multiples of groups.
Conv1d_accepts(i, o, g) == g > 0 /\ i % g = 0 /\ o % g = 0

Conv1d(i, o, k, g) ==
    [kind |-> "Conv1d", in_channels |-> i, out_channels |-> o,
     kernel_size |-> k, groups |-> g, prob |-> 0]

DropoutModule(p) ==
    [kind |-> "Dropout", in_channels |-> 0, out_channels |-> 0,
     kernel_size |-> 0, groups |-> 0, prob |-> p]

\* Conv1d.forward on (batch, channels, time), stride 1, no padding.
Conv1d_forward(m, s) ==
    IF Len(s) # 3
    THEN Raise("RuntimeError", "conv1d: expected 2D or 3D input")
    ELSE IF s[2] # m.in_channels
    THEN Raise("RuntimeError", "conv1d: input channels do not match")
    ELSE IF s[3] < m.kernel_size
    THEN Raise("RuntimeError", "conv1d: kernel size greater than input size")
    ELSE Ok(<<s[1], m.out_channels, s[3] - (m.kernel_size - 1)>>)

\* A module of subsequent_convs applied to a tensor.
Module_forward(m, s) ==
    IF m.kind = "Dropout" THEN Ok(s) ELSE Conv1d_forward(m, s)

RECURSIVE ApplyModules(_, _)
ApplyModules(ms, r) ==
    IF ms = <<>> \/ ~r.ok
    THEN r
    ELSE ApplyModules(Tail(ms), Module_forward(Head(ms), r.shape))

(***************************************************************************)
(* CNN1D                                                                   *)
(***************************************************************************)
RECURSIVE SubsequentConvs(_, _, _, _, _)
SubsequentConvs(n, C, D, K, p) ==
    IF n <= 0
    THEN <<>>
    ELSE <<DropoutModule(p), Conv1d(C * D, C * D, K, D)>>
             \o SubsequentConvs(n - 1, C, D, K, p)

CNN1D_init(S, D, K, L, C, p) ==
    IF ~(L >= 1)
    THEN CtorRaise("CNN1D", "AssertionError", "CNN1D.__init__: n_1d_cnn_layers")
    ELSE IF ~Conv1d_accepts(C, C * D, C)
    THEN CtorRaise("CNN1D", "ValueError", "CNN1D.__init__: initial_conv")
    ELSE IF L > 1 /\ ~Dropout_accepts(p)
    THEN CtorRaise("CNN1D", "ValueError", "CNN1D.__init__: Dropout")
    ELSE IF L > 1 /\ ~Conv1d_accepts(C * D, C * D, D)
    THEN CtorRaise("CNN1D", "ValueError", "CNN1D.__init__: subsequent_convs")
    ELSE [ok |-> TRUE, err |-> "", at |-> "", cls |-> "CNN1D",
          n_channels |-> C,
          sequence_length |-> S,
          convolution_dimension_length |-> D,
          n_1d_cnn_layers |-> L,
          initial_conv |-> Conv1d(C, C * D, K, C),
          subsequent_convs |-> SubsequentConvs(L - 1, C, D, K, p)]

\* The tensor after the convolutions, before the reshape.
CNN1D_convolved(self, x) ==
    ApplyModules(self.subsequent_convs, Conv1d_forward(self.initial_conv, x))

CNN1D_forward(self, x) ==
    LET convolved == CNN1D_convolved(self, x)
        reshaped == Then(convolved,
            ReshapeInfer(convolved.shape,
                <<self.n_channels,
                  self.convolution_dimension_length,
                  self.sequence_length - 2 * self.n_1d_cnn_layers>>))
    IN  Then(reshaped, Permute(reshaped.shape, <<0, 1, 3, 2>>))

\* The input channels that output channel o of a grouped convolution reads:
\* the channels are cut into groups consecutive blocks, and an output
\* channel is computed from the input channels of its own block only.
Conv1d_reads(m, o) ==
    LET in_per_group == m.in_channels \div m.groups
        out_per_group == m.out_channels \div m.groups
        g == (o - 1) \div out_per_group
    IN  (g * in_per_group + 1)..((g + 1) * in_per_group)

\* deps[i] is the set of EEG channels that channel i of a tensor was computed
\* from; the same for the channels of the convolution's output.
Conv1d_depends(m, deps) ==
    [o \in 1..m.out_channels |-> UNION {deps[i] : i \in Conv1d_reads(m, o)}]

\* Dropout acts on each element by itself.
Module_depends(m, deps) ==
    IF m.kind = "Dropout" THEN deps ELSE Conv1d_depends(m, deps)

RECURSIVE ApplyDepends(_, _)
ApplyDepends(ms, deps) ==
    IF ms = <<>>
    THEN deps
    ELSE ApplyDepends(Tail(ms), Module_depends(Head(ms), deps))

\* What each channel of the tensor depends on after the first n convolution
\* layers of forward: initial_conv on the input, whose channel c is EEG
\* channel c, then n - 1 [Dropout, Conv1d] pairs of subsequent_convs.
CNN1D_depends(self, n) ==
    ApplyDepends(SubSeq(self.subsequent_convs, 1, 2 * (n - 1)),
                 Conv1d_depends(self.initial_conv,
                                [c \in 1..self.n_channels |-> {c}]))

\* reshape(-1, n_channels, convolution_dimension_length, T): channel j of the
\* convolved tensor becomes a feature map of this EEG channel.
CNN1D_channel_of(self, j) ==
    ((j - 1) \div self.convolution_dimension_length) + 1

(***************************************************************************)
(* TransformerBlock                                                        *)
(***************************************************************************)
\* nn.MultiheadAttention(embed_dim, num_heads, dropout): embed_dim must be a
\* multiple of num_heads; the dropout value is stored unchecked.
MultiheadAttention_accepts(E, h) == E > 0 /\ h > 0 /\ E % h = 0

TransformerBlock_init(input_dim, num_heads, ff_dim, dropout) ==
    IF ~MultiheadAttention_accepts(input_dim, num_heads)
    THEN CtorRaise("TransformerBlock", "AssertionError",
                   "TransformerBlock.__init__: attention")
    ELSE IF ~Dropout_accepts(dropout)
    THEN CtorRaise("TransformerBlock", "ValueError",
                   "TransformerBlock.__init__: dropout")
    ELSE [ok |-> TRUE, err |-> "", at |-> "", cls |-> "TransformerBlock",
          num_heads |-> num_heads,
          dropout |-> dropout,
          embed_dim |-> input_dim,
          feed_forward |-> <<Linear(input_dim, ff_dim), Linear(ff_dim, input_dim)>>,
          layer_norm2 |-> input_dim,
          layer_norm3 |-> input_dim,
          batch_first |-> FALSE]

\* self.attention(x, x, x): the query is (L, N, E) or (L, E), E = embed_dim.
MultiheadAttention_forward(self, x) ==
    IF Len(x) # 3 /\ Len(x) # 2
    THEN Raise("AssertionError", "attention: query must be a 2-D or 3-D tensor")
    ELSE IF Last(x) # self.embed_dim
    THEN Raise("AssertionError", "attention: embedding dimension mismatch")
    ELSE Ok(x)

\* nn.LayerNorm(n): the trailing axis must be n wide.
LayerNorm_forward(n, x) ==
    IF x = <<>> \/ Last(x) # n
    THEN Raise("RuntimeError", "layer_norm: normalized_shape mismatch")
    ELSE Ok(x)

TransformerBlock_forward(self, x) ==
    LET attn_output == MultiheadAttention_forward(self, x)
        x1 == Then(attn_output, AddBroadcast(x, attn_output.shape))
        x2 == Then(x1, LayerNorm_forward(self.layer_norm2, x1.shape))
        hidden == Then(x2, Linear_forward(self.feed_forward[1], x2.shape))
        ff_output == Then(hidden,
                          Linear_forward(self.feed_forward[2], hidden.shape))
        x3 == Then(ff_output, AddBroadcast(x2.shape, ff_output.shape))
    IN  Then(x3, LayerNorm_forward(self.layer_norm3, x3.shape))

\* [TransformerBlock(...) for _ in range(num_layers)]
Layers(block, num_layers) ==
    IF num_layers <= 0 THEN <<>> ELSE [i \in 1..num_layers |-> block]

\* for layer in self.layers: x = layer(x)
RECURSIVE ApplyLayers(_, _)
ApplyLayers(layers, r) ==
    IF layers = <<>> \/ ~r.ok
    THEN r
    ELSE ApplyLayers(Tail(layers), TransformerBlock_forward(Head(layers), r.shape))

\* rows[k] is the set of indices along axis 0 of the input that slice k along
\* axis 0 of a tensor was computed from.  The attention is built without
\* batch_first, so a 3-D query is (sequence, batch, embedding): every
\* position along axis 0 attends to every position along axis 0.
MultiheadAttention_depends(self, rows) ==
    IF self.batch_first
    THEN rows
    ELSE [k \in DOMAIN rows |-> UNION {rows[i] : i \in DOMAIN rows}]

\* x + attn_output; the layer norms and the feed-forward act on the last
\* axis, and dropout on each element.
TransformerBlock_depends(self, rows) ==
    [k \in DOMAIN rows |-> rows[k] \cup MultiheadAttention_depends(self, rows)[k]]

RECURSIVE ApplyLayers_depends(_, _)
ApplyLayers_depends(layers, rows) ==
    IF layers = <<>>
    THEN rows
    ELSE ApplyLayers_depends(Tail(layers),
                             TransformerBlock_depends(Head(layers), rows))

(***************************************************************************)
(* RegionalTransformer                                                     *)
(***************************************************************************)
RegionalTransformer_init(input_dim, num_heads, ff_dim, num_layers, sequence_length, latent_dim, dropout, verbose) ==
    LET block == TransformerBlock_init(latent_dim, num_heads, ff_dim, dropout)
    IN  IF num_layers >= 1 /\ ~block.ok
        THEN CtorRaise("RegionalTransformer", block.err, block.at)
        ELSE [ok |-> TRUE, err |-> "", at |-> "", cls |-> "RegionalTransformer",
              layers |-> Layers(block, num_layers),
              latent_dim |-> latent_dim,
              verbose |-> verbose,
              latent_mapping_matrix |-> <<latent_dim, sequence_length>>,
              positional_encoding |-> <<latent_dim>>]

\* The matrix as it is: what matmul gets when the .T is left out.
NotTransposed(w) == w

\* The transpose of a matrix.
Transposed(w) == <<w[2], w[1]>>

RegionalTransformer_forward(self, x) ==
    LET permuted == Permute(x, <<0, 1, 3, 2>>)
    IN  IF ~permuted.ok
        THEN permuted
        ELSE LET batch_size == permuted.shape[1]
                 n_channels == permuted.shape[2]
                 convolution_dimension_length == permuted.shape[3]
                 mapped == Matmul(permuted.shape,
                                  Transposed(self.latent_mapping_matrix))
                 biased == Then(mapped,
                     AddBroadcast(mapped.shape, self.positional_encoding))
                 flat == Then(biased,
                     View(biased.shape,
                          <<batch_size,
                            n_channels * convolution_dimension_length,
                            self.latent_dim>>))
                 transformed == ApplyLayers(self.layers, flat)
             IN  Then(transformed,
                      View(transformed.shape,
                           <<batch_size, n_channels,
                             convolution_dimension_length, self.latent_dim>>))

\* The batch elements of x that each batch element of forward(x) was
\* computed from: the permute, the matmul, the added encoding and both views
\* keep axis 0, and the blocks get the tensor as (batch_size, C * D, latent).
RegionalTransformer_depends(self, x) ==
    ApplyLayers_depends(self.layers, [b \in 1..x[1] |-> {b}])

(***************************************************************************)
(* SynchronousTransformer                                                  *)
(***************************************************************************)
SynchronousTransformer_init(input_dim, num_heads, ff_dim, num_layers, sequence_length, latent_dim, dropout, verbose) ==
    LET block == TransformerBlock_init(input_dim, num_heads, ff_dim, dropout)
    IN  IF num_layers >= 1 /\ ~block.ok
        THEN CtorRaise("SynchronousTransformer", block.err, block.at)
        ELSE [ok |-> TRUE, err |-> "", at |-> "", cls |-> "SynchronousTransformer",
              layers |-> Layers(block, num_layers),
              latent_dim |-> latent_dim,
              verbose |-> verbose,
              latent_mapping_matrix |-> <<latent_dim, latent_dim>>,
              positional_encoding |-> <<latent_dim>>]

SynchronousTransformer_forward(self, x) ==
    IF Len(x) # 4
    THEN Raise("ValueError", "SynchronousTransformer.forward: unpack x.shape")
    ELSE LET batch_size == x[1]
             n_channels == x[2]
             convolution_dimension_length == x[3]
             mapped == Matmul(x, Transposed(self.latent_mapping_matrix))
             biased == Then(mapped,
                 AddBroadcast(mapped.shape, self.positional_encoding))
             transformed == ApplyLayers(self.layers, biased)
         IN  Then(transformed,
                  View(transformed.shape,
                       <<batch_size, convolution_dimension_length,
                         n_channels, self.latent_dim>>))

(***************************************************************************)
(* TemporalTransformer                                                     *)
(***************************************************************************)
TemporalTransformer_init(input_dim, num_heads, ff_dim, num_layers, sequence_length, latent_dim, n_channels, dropout, verbose) ==
    LET block == TransformerBlock_init(latent_dim, num_heads, ff_dim, dropout)
    IN  IF num_layers >= 1 /\ ~block.ok
        THEN CtorRaise("TemporalTransformer", block.err, block.at)
        ELSE [ok |-> TRUE, err |-> "", at |-> "", cls |-> "TemporalTransformer",
              n_channels |-> n_channels,
              layers |-> Layers(block, num_layers),
              latent_dim |-> latent_dim,
              verbose |-> verbose,
              positional_encoding |-> <<1, sequence_length, latent_dim>>,
              linear |-> Linear(n_channels * sequence_length, latent_dim)]

TemporalTransformer_forward(self, x) ==
    IF Len(x) # 4
    THEN Raise("ValueError", "TemporalTransformer.forward: unpack x.shape")
    ELSE LET batch_size == x[1]
             convolutional_dimension_length == x[2]
             n_channels == x[3]
             sequence_length == x[4]
             flat == <<batch_size, convolutional_dimension_length,
                       n_channels * sequence_length>>
             x_flat == View(x, flat)
             x_map == Then(x_flat, Linear_forward(self.linear, x_flat.shape))
             printed == Then(x_map,
                 IF self.verbose > 0
                 THEN Raise("AttributeError",
                            "TemporalTransformer.forward: latent_mapping_matrix")
                 ELSE x_map)
             biased == Then(printed,
                 AddBroadcast(printed.shape, self.positional_encoding))
             viewed == Then(biased, View(biased.shape, flat))
             transformed == ApplyLayers(self.layers, viewed)
         IN  Then(transformed, View(transformed.shape, flat))

(***************************************************************************)
(* EEGformerEncoder                                                        *)
(***************************************************************************)
\* A call Class(*positional) of a transformer's constructor: the leading
\* parameters are required, dropout and verbose have defaults.  A call with
\* fewer positional arguments than required parameters is a TypeError.
RegionalTransformer_call(positional) ==
    IF Len(positional) < 6
    THEN CtorRaise("RegionalTransformer", "TypeError",
                   "RegionalTransformer.__init__: missing latent_dim")
    ELSE RegionalTransformer_init(
             positional[1], positional[2], positional[3], positional[4],
             positional[5], positional[6],
             IF Len(positional) >= 7 THEN positional[7]
                                     ELSE Transformer_default_dropout,
             IF Len(positional) >= 8 THEN positional[8] ELSE 0)

SynchronousTransformer_call(positional) ==
    IF Len(positional) < 6
    THEN CtorRaise("SynchronousTransformer", "TypeError",
                   "SynchronousTransformer.__init__: missing latent_dim")
    ELSE SynchronousTransformer_init(
             positional[1], positional[2], positional[3], positional[4],
             positional[5], positional[6],
             IF Len(positional) >= 7 THEN positional[7]
                                     ELSE Transformer_default_dropout,
             IF Len(positional) >= 8 THEN positional[8] ELSE 0)

TemporalTransformer_call(positional) ==
    IF Len(positional) < 7
    THEN CtorRaise("TemporalTransformer", "TypeError",
                   "TemporalTransformer.__init__: missing latent_dim, n_channels")
    ELSE TemporalTransformer_init(
             positional[1], positional[2], positional[3], positional[4],
             positional[5], positional[6], positional[7],
             IF Len(positional) >= 8 THEN positional[8]
                                     ELSE Transformer_default_dropout,
             IF Len(positional) >= 9 THEN positional[9] ELSE 0)

EEGformerEncoder_init(input_dim, num_heads, ff_dim, num_layers, dropout) ==
    LET given == <<input_dim, num_heads, ff_dim, num_layers, dropout>>
        regional == RegionalTransformer_call(given)
        synchronous == SynchronousTransformer_call(given)
        temporal == TemporalTransformer_call(given)
    IN  IF ~regional.ok
        THEN CtorRaise("EEGformerEncoder", regional.err, regional.at)
        ELSE IF ~synchronous.ok
        THEN CtorRaise("EEGformerEncoder", synchronous.err, synchronous.at)
        ELSE IF ~temporal.ok
        THEN CtorRaise("EEGformerEncoder", temporal.err, temporal.at)
        ELSE [ok |-> TRUE, err |-> "", at |-> "", cls |-> "EEGformerEncoder",
              regional_transformer |-> regional,
              synchronous_transformer |-> synchronous,
              temporal_transformer |-> temporal]

\* A sub-module call made by a forward: the attribute called and its argument.
CallOf(name, x) == [fn |-> name, arg |-> x]

EEGformerEncoder_forward(self, x) ==
    LET x1 == RegionalTransformer_forward(self.regional_transformer, x)
        x2 == Then(x1, SynchronousTransformer_forward(
                           self.synchronous_transformer, x1.shape))
    IN  Then(x2, TemporalTransformer_forward(self.temporal_transformer,
                                             x2.shape))

\* The stage calls of EEGformerEncoder.forward(x), in order; a stage that
\* raises ends the forward.
EEGformerEncoder_calls(self, x) ==
    LET r1 == RegionalTransformer_forward(self.regional_transformer, x)
        r2 == Then(r1, SynchronousTransformer_forward(
                           self.synchronous_transformer, r1.shape))
    IN  <<CallOf("regional_transformer", x)>>
        \o (IF r1.ok THEN <<CallOf("synchronous_transformer", r1.shape)>>
                     ELSE <<>>)
        \o (IF r2.ok THEN <<CallOf("temporal_transformer", r2.shape)>>
                     ELSE <<>>)

(***************************************************************************)
(* EEGformerDecoderForRegression                                           *)
(***************************************************************************)
EEGformerDecoderForRegression_init(input_dim, hidden_dim, output_dim) ==
    [ok |-> TRUE, err |-> "", at |-> "", cls |-> "EEGformerDecoderForRegression",
     fc2 |-> Linear(input_dim, hidden_dim),
     fc3 |-> Linear(hidden_dim, output_dim)]

\* The decoder with fc3 left out: the hidden features are returned.
EEGformerDecoderForRegression_forward_without_fc3(self, x) ==
    Linear_forward(self.fc2, x)

\* F.relu keeps the shape.
EEGformerDecoderForRegression_forward(self, x) ==
    LET hidden == Linear_forward(self.fc2, x)
    IN  Then(hidden, Linear_forward(self.fc3, hidden.shape))

(***************************************************************************)
(* EEGFormerForRegression                                                  *)
(***************************************************************************)
EEGFormerForRegression_init(sequence_length, convolution_dimension_length, kernel_size, n_2d_cnn_layers, n_channels, input_dim, num_heads, ff_dim, num_layers, dropout, hidden_dim, output_dim) ==
    LET cnn == CNN1D_init(sequence_length, convolution_dimension_length,
                          kernel_size, n_2d_cnn_layers, n_channels,
                          CNN1D_default_dropout)
        enc == EEGformerEncoder_init(input_dim, num_heads, ff_dim, num_layers,
                                     dropout)
        dec == EEGformerDecoderForRegression_init(input_dim, hidden_dim,
                                                  output_dim)
    IN  IF ~cnn.ok
        THEN CtorRaise("EEGFormerForRegression", cnn.err, cnn.at)
        ELSE IF ~enc.ok
        THEN CtorRaise("EEGFormerForRegression", enc.err, enc.at)
        ELSE [ok |-> TRUE, err |-> "", at |-> "", cls |-> "EEGFormerForRegression",
              cnn2d |-> cnn,
              encoder |-> enc,
              decoder |-> dec]

EEGFormerForRegression_forward(self, x) ==
    LET x1 == CNN1D_forward(self.cnn2d, x)
        x2 == Then(x1, Permute(x1.shape, <<3, 0, 1>>))
        x3 == Then(x2, EEGformerEncoder_forward(self.encoder, x2.shape))
    IN  Then(x3, EEGformerDecoderForRegression_forward(self.decoder, x3.shape))

EEGFormerForRegression_calls(self, x) ==
    LET r1 == CNN1D_forward(self.cnn2d, x)
        r2 == Then(r1, Permute(r1.shape, <<3, 0, 1>>))
        r3 == Then(r2, EEGformerEncoder_forward(self.encoder, r2.shape))
    IN  <<CallOf("cnn2d", x)>>
        \o (IF r2.ok THEN <<CallOf("encoder", r2.shape)>> ELSE <<>>)
        \o (IF r3.ok THEN <<CallOf("decoder", r3.shape)>> ELSE <<>>)

(***************************************************************************)
(* The session: construct a module, call its forward.                      *)
(***************************************************************************)
\* No module has been constructed.
NoSession ==
    /\ args = [cls |-> ""]
    /\ obj = NoObject
    /\ inp = <<>>
    /\ out = NoCall
    /\ calls = <<>>

\* One stream's callback is not running.
Idle == [step |-> "idle", left |-> 0]

\* The data-collection script has not been started.
NoCollection ==
    /\ script = [pc |-> "not started"]
    /\ subscribed = {}
    /\ handling = [h \in {"eeg", "accelerometer"} |-> Idle]
    /\ delivered = 0
    /\ closed = {}
    /\ log = <<>>

Init == NoSession /\ NoCollection

Constructed(a, o) ==
    /\ args' = a
    /\ obj' = o
    /\ inp' = <<>>
    /\ out' = NoCall
    /\ calls' = <<>>
    /\ UNCHANGED collection

\* Nothing has been constructed yet: a session builds one module and then
\* calls it; the modules share no state.
Fresh == args.cls = ""

\* forward has been called in this session.
Invoked == out # NoCall

\* obj.forward(x); when the constructor raised there is no object and the
\* exception is what the expression Class(args).forward(x) ends in.  forward
\* reads the module and changes nothing of it, so a session's first call
\* stands for every call.
Called(x, r, cs) ==
    /\ ~Invoked
    /\ inp' = x
    /\ out' = IF obj.ok THEN r ELSE Raise(obj.err, obj.at)
    /\ calls' = IF obj.ok THEN cs ELSE <<>>
    /\ UNCHANGED <<args, obj>>
    /\ UNCHANGED collection

NewCNN1D ==
    /\ Fresh
    /\ \E S \in Times, D \in Dims, K \in KernelSizes, L \in LayerCounts,
          C \in Dims, p \in DropoutValues, dflt \in BOOLEAN :
           LET dropout == IF dflt THEN CNN1D_default_dropout ELSE p
           IN  Constructed(
                   [cls |-> "CNN1D", kernel_size |-> K, n_channels |-> C,
                    sequence_length |-> S, convolution_dimension_length |-> D,
                    n_1d_cnn_layers |-> L, dropout |-> dropout],
                   CNN1D_init(S, D, K, L, C, dropout))

ForwardCNN1D ==
    /\ args.cls = "CNN1D"
    /\ \E B \in Batches, C \in Dims, T \in Times :
          Called(<<B, C, T>>, CNN1D_forward(obj, <<B, C, T>>), <<>>)

NewTransformerBlock ==
    /\ Fresh
    /\ \E E \in Dims, h \in HeadCounts, f \in FfDims, p \in DropoutValues,
          dflt \in BOOLEAN :
           LET dropout == IF dflt THEN TransformerBlock_default_dropout ELSE p
           IN  Constructed(
                   [cls |-> "TransformerBlock", input_dim |-> E,
                    num_heads |-> h, ff_dim |-> f, dropout |-> dropout],
                   TransformerBlock_init(E, h, f, dropout))

ForwardTransformerBlock ==
    /\ args.cls = "TransformerBlock"
    /\ \E x \in Shapes3 \cup Shapes4 :
          Called(x, TransformerBlock_forward(obj, x), <<>>)

NewRegionalTransformer ==
    /\ Fresh
    /\ \E E \in Dims, h \in HeadCounts, f \in FfDims, n \in LayerCounts,
          S \in Dims, Z \in Dims, p \in DropoutValues, dflt \in BOOLEAN,
          v \in VerboseValues :
           LET dropout == IF dflt THEN Transformer_default_dropout ELSE p
           IN  Constructed(
                   [cls |-> "RegionalTransformer", sequence_length |-> S,
                    input_dim |-> E, num_heads |-> h, ff_dim |-> f,
                    dropout |-> dropout, num_layers |-> n, latent_dim |-> Z,
                    verbose |-> v],
                   RegionalTransformer_init(E, h, f, n, S, Z, dropout, v))

ForwardRegionalTransformer ==
    /\ args.cls = "RegionalTransformer"
    /\ \E x \in Shapes4 : Called(x, RegionalTransformer_forward(obj, x), <<>>)

NewSynchronousTransformer ==
    /\ Fresh
    /\ \E E \in Dims, h \in HeadCounts, f \in FfDims, n \in LayerCounts,
          S \in Dims, Z \in Dims, p \in DropoutValues, dflt \in BOOLEAN,
          v \in VerboseValues :
           LET dropout == IF dflt THEN Transformer_default_dropout ELSE p
           IN  Constructed(
                   [cls |-> "SynchronousTransformer", sequence_length |-> S,
                    input_dim |-> E, num_heads |-> h, ff_dim |-> f,
                    dropout |-> dropout, num_layers |-> n, latent_dim |-> Z,
                    verbose |-> v],
                   SynchronousTransformer_init(E, h, f, n, S, Z, dropout, v))

ForwardSynchronousTransformer ==
    /\ args.cls = "SynchronousTransformer"
    /\ \E x \in Shapes4 :
          Called(x, SynchronousTransformer_forward(obj, x), <<>>)

NewTemporalTransformer ==
    /\ Fresh
    /\ \E E \in Dims, h \in HeadCounts, f \in FfDims, n \in LayerCounts,
          S \in Dims, Z \in Dims, C \in Dims, p \in DropoutValues,
          dflt \in BOOLEAN, v \in VerboseValues :
           LET dropout == IF dflt THEN Transformer_default_dropout ELSE p
           IN  Constructed(
                   [cls |-> "TemporalTransformer", n_channels |-> C,
                    sequence_length |-> S, input_dim |-> E, num_heads |-> h,
                    ff_dim |-> f, dropout |-> dropout, num_layers |-> n,
                    latent_dim |-> Z, verbose |-> v],
                   TemporalTransformer_init(E, h, f, n, S, Z, C, dropout, v))

ForwardTemporalTransformer ==
    /\ args.cls = "TemporalTransformer"
    /\ \E x \in Shapes4 : Called(x, TemporalTransformer_forward(obj, x), <<>>)

NewEEGformerEncoder ==
    /\ Fresh
    /\ \E E \in Dims, h \in HeadCounts, f \in FfDims, n \in LayerCounts,
          p \in DropoutValues, dflt \in BOOLEAN :
           LET dropout == IF dflt THEN EEGformerEncoder_default_dropout ELSE p
           IN  Constructed(
                   [cls |-> "EEGformerEncoder", input_dim |-> E,
                    num_heads |-> h, ff_dim |-> f, dropout |-> dropout,
                    num_layers |-> n],
                   EEGformerEncoder_init(E, h, f, n, dropout))

ForwardEEGformerEncoder ==
    /\ args.cls = "EEGformerEncoder"
    /\ \E x \in Shapes4 :
          Called(x, EEGformerEncoder_forward(obj, x),
                 EEGformerEncoder_calls(obj, x))

NewEEGformerDecoderForRegression ==
    /\ Fresh
    /\ \E E \in Dims, H \in Dims, O \in Dims :
           Constructed(
               [cls |-> "EEGformerDecoderForRegression", input_dim |-> E,
                hidden_dim |-> H, output_dim |-> O],
               EEGformerDecoderForRegression_init(E, H, O))

ForwardEEGformerDecoderForRegression ==
    /\ args.cls = "EEGformerDecoderForRegression"
    /\ \E x \in Shapes1 \cup Shapes2 \cup Shapes3 :
          Called(x, EEGformerDecoderForRegression_forward(obj, x), <<>>)

NewEEGFormerForRegression ==
    /\ Fresh
    /\ \E S \in Times, D \in Dims, K \in KernelSizes, L \in LayerCounts,
          C \in Dims, E \in Dims, h \in HeadCounts, f \in FfDims,
          n \in {1}, p \in DropoutValues, H \in {1}, O \in Dims :
           Constructed(
               [cls |-> "EEGFormerForRegression", kernel_size |-> K,
                n_channels |-> C, sequence_length |-> S,
                convolution_dimension_length |-> D, input_dim |-> E,
                num_heads |-> h, ff_dim |-> f, dropout |-> p,
                num_layers |-> n, hidden_dim |-> H, output_dim |-> O,
                n_2d_cnn_layers |-> L],
               EEGFormerForRegression_init(S, D, K, L, C, E, h, f, n, p, H, O))

ForwardEEGFormerForRegression ==
    /\ args.cls = "EEGFormerForRegression"
    /\ \E B \in Batches, C \in Dims, T \in Times :
          Called(<<B, C, T>>, EEGFormerForRegression_forward(obj, <<B, C, T>>),
                 EEGFormerForRegression_calls(obj, <<B, C, T>>))

Next ==
    \/ NewCNN1D
    \/ ForwardCNN1D
    \/ NewTransformerBlock
    \/ ForwardTransformerBlock
    \/ NewRegionalTransformer
    \/ ForwardRegionalTransformer
    \/ NewSynchronousTransformer
    \/ ForwardSynchronousTransformer
    \/ NewTemporalTransformer
    \/ ForwardTemporalTransformer
    \/ NewEEGformerEncoder
    \/ ForwardEEGformerEncoder
    \/ NewEEGformerDecoderForRegression
    \/ ForwardEEGformerDecoderForRegression
    \/ NewEEGFormerForRegression
    \/ ForwardEEGFormerForRegression

Spec == Init /\ [][Next]_vars

(***************************************************************************)
(* DataCollection/data_collection.py                                       *)
(***************************************************************************)
\* Bounds of the collection model.
MaxDuration == 2
MaxValues == 2
MaxDeliveries == 2

\* --duration, an int.
Durations == 0..MaxDuration

\* __name__ of the module: run as a script, or imported by a caller of
\* collect.
ModuleNames == {"__main__", "data_collection"}

\* The file as it is, with NEUROSITY_EMAIL= and the two lines after it left
\* without a value, or with the three values filled in.
Sources == {"as written", "credentials filled in"}

Interrupts == {"signal_handler", "KeyboardInterrupt"}

Started(n, src) ==
    [name |-> n, pc |-> "compile", source |-> src, duration |-> 0,
     elapsed |-> 0, sigint |-> "default", status |-> -1, by |-> ""]

CollectInit ==
    /\ NoSession
    /\ \E n \in ModuleNames, src \in Sources : script = Started(n, src)
    /\ subscribed = {}
    /\ handling = [h \in {"eeg", "accelerometer"} |-> Idle]
    /\ delivered = 0
    /\ closed = {}
    /\ log = <<>>

\* The process ends with exit status st.
Exit(st, how) == [script EXCEPT !.pc = "exited", !.status = st, !.by = how]

At(l) == script.pc = l

Goto(l) == script' = [script EXCEPT !.pc = l]

Running == script.pc \notin {"not started", "exited"}

\* The interpreter compiles the file; an assignment without a value is a
\* SyntaxError and nothing of the file runs.
Compile ==
    /\ At("compile")
    /\ script' = IF script.source = "as written"
                 THEN Exit(1, "SyntaxError")
                 ELSE [script EXCEPT !.pc = "module"]
    /\ UNCHANGED <<session, subscribed, handling, delivered, closed, log>>

\* The top-level statements down to the definitions: parse --duration,
\* build the SDK object, log in, print the device info.
ModuleBody ==
    /\ At("module")
    /\ \E d \in Durations :
           script' = [script EXCEPT !.pc = "guard", !.duration = d]
    /\ UNCHANGED <<session, subscribed, handling, delivered, closed, log>>

\* if __name__ == "__collect__": install signal_handler and collect.
\* Otherwise the script has reached its end, or the import has finished.
MainGuard ==
    /\ At("guard")
    /\ script' = IF script.name = "__collect__"
                 THEN [script EXCEPT !.pc = "login", !.sigint = "signal_handler"]
                 ELSE IF script.name = "__main__"
                 THEN Exit(0, "end of script")
                 ELSE [script EXCEPT !.pc = "imported"]
    /\ UNCHANGED <<session, subscribed, handling, delivered, closed, log>>

\* collect(duration), called by the importer: asyncio.run(eeg(duration)).
collect ==
    /\ At("imported")
    /\ \E d \in Durations :
           script' = [script EXCEPT !.pc = "login", !.duration = d]
    /\ UNCHANGED <<session, subscribed, handling, delivered, closed, log>>

\* await neurosity.login(...)
eeg_login ==
    /\ At("login")
    /\ Goto("subscribe eeg")
    /\ UNCHANGED <<session, subscribed, handling, delivered, closed, log>>

\* unsubscribe_eeg = await neurosity.brainwaves_raw(handle_eeg_data)
eeg_subscribe_eeg ==
    /\ At("subscribe eeg")
    /\ Goto("subscribe accelerometer")
    /\ subscribed' = subscribed \cup {"eeg"}
    /\ log' = Append(log, "subscribe eeg")
    /\ UNCHANGED <<session, handling, delivered, closed>>

\* unsubscribe_accel = await neurosity.accelerometer(handle_accelerometer_data)
eeg_subscribe_accelerometer ==
    /\ At("subscribe accelerometer")
    /\ Goto("sleep")
    /\ subscribed' = subscribed \cup {"accelerometer"}
    /\ log' = Append(log, "subscribe accelerometer")
    /\ UNCHANGED <<session, handling, delivered, closed>>

\* await asyncio.sleep(duration): the wait begins,
eeg_sleep ==
    /\ At("sleep")
    /\ script' = [script EXCEPT !.pc = "sleeping", !.elapsed = 0]
    /\ log' = Append(log, "sleep")
    /\ UNCHANGED <<session, subscribed, handling, delivered, closed>>

\* a second passes,
eeg_sleeping ==
    /\ At("sleeping")
    /\ script.elapsed < script.duration
    /\ script' = [script EXCEPT !.elapsed = @ + 1]
    /\ UNCHANGED <<session, subscribed, handling, delivered, closed, log>>

\* and the wait ends.
eeg_wake ==
    /\ At("sleeping")
    /\ script.elapsed >= script.duration
    /\ Goto("unsubscribe eeg")
    /\ log' = Append(log, "wake")
    /\ UNCHANGED <<session, subscribed, handling, delivered, closed>>

\* unsubscribe_eeg()
eeg_unsubscribe_eeg ==
    /\ At("unsubscribe eeg")
    /\ Goto("unsubscribe accelerometer")
    /\ subscribed' = subscribed \ {"eeg"}
    /\ log' = Append(log, "unsubscribe eeg")
    /\ UNCHANGED <<session, handling, delivered, closed>>

\* unsubscribe_accel()
eeg_unsubscribe_accelerometer ==
    /\ At("unsubscribe accelerometer")
    /\ Goto("close")
    /\ subscribed' = subscribed \ {"accelerometer"}
    /\ log' = Append(log, "unsubscribe accelerometer")
    /\ UNCHANGED <<session, handling, delivered, closed>>

\* write_api.close(); eeg returns and asyncio.run with it.
eeg_close ==
    /\ At("close")
    /\ Goto("returned")
    /\ closed' = closed \cup {"write_api"}
    /\ log' = Append(log, "close")
    /\ UNCHANGED <<session, subscribed, handling, delivered>>

\* The SDK invokes handle_eeg_data(data) with n values in data['data']: the
\* stream is subscribed, and a stream's callback runs one call at a time.
handle_eeg_data ==
    /\ Running
    /\ "eeg" \in subscribed
    /\ handling["eeg"] = Idle
    /\ delivered < MaxDeliveries
    /\ \E n \in 1..MaxValues :
           handling' = [handling EXCEPT !["eeg"] = [step |-> "csv", left |-> n]]
    /\ delivered' = delivered + 1
    /\ UNCHANGED <<session, script, subscribed, closed, log>>

\* write_data_to_csv('EEG', {...}) for the next value,
handle_eeg_data_csv ==
    /\ Running
    /\ handling["eeg"].step = "csv"
    /\ handling' = [handling EXCEPT !["eeg"].step = "influx"]
    /\ UNCHANGED <<session, script, subscribed, delivered, closed, log>>

\* then write_api.write(bucket=bucket, org=org, record=point); the callback
\* returns after the last value.
handle_eeg_data_write ==
    /\ Running
    /\ handling["eeg"].step = "influx"
    /\ handling' = [handling EXCEPT !["eeg"] =
                        IF @.left = 1
                        THEN Idle
                        ELSE [step |-> "csv", left |-> @.left - 1]]
    /\ log' = Append(log, "write eeg")
    /\ UNCHANGED <<session, script, subscribed, delivered, closed>>

\* The SDK invokes handle_accelerometer_data(data): one x, y, z reading.
handle_accelerometer_data ==
    /\ Running
    /\ "accelerometer" \in subscribed
    /\ handling["accelerometer"] = Idle
    /\ delivered < MaxDeliveries
    /\ handling' = [handling EXCEPT
                        !["accelerometer"] = [step |-> "csv", left |-> 1]]
    /\ delivered' = delivered + 1
    /\ UNCHANGED <<session, script, subscribed, closed, log>>

\* write_data_to_csv('Accelerometer', {...}),
handle_accelerometer_data_csv ==
    /\ Running
    /\ handling["accelerometer"].step = "csv"
    /\ handling' = [handling EXCEPT !["accelerometer"].step = "influx"]
    /\ UNCHANGED <<session, script, subscribed, delivered, closed, log>>

\* then write_api.write(bucket=bucket, org=org, record=point).
handle_accelerometer_data_write ==
    /\ Running
    /\ handling["accelerometer"].step = "influx"
    /\ handling' = [handling EXCEPT !["accelerometer"] = Idle]
    /\ log' = Append(log, "write accelerometer")
    /\ UNCHANGED <<session, script, subscribed, delivered, closed>>

\* Ctrl+C.  With signal_handler installed: client.close(), exit(0).  With the
\* default disposition Python raises KeyboardInterrupt, which nothing here
\* catches: the process ends without closing anything, not with status 0.
signal_handler ==
    /\ Running
    /\ IF script.sigint = "signal_handler"
       THEN /\ closed' = closed \cup {"client"}
            /\ script' = Exit(0, "signal_handler")
       ELSE /\ closed' = closed
            /\ script' = Exit(130, "KeyboardInterrupt")
    /\ UNCHANGED <<session, subscribed, handling, delivered, log>>

CollectNext ==
    \/ Compile
    \/ ModuleBody
    \/ MainGuard
    \/ collect
    \/ eeg_login
    \/ eeg_subscribe_eeg
    \/ eeg_subscribe_accelerometer
    \/ eeg_sleep
    \/ eeg_sleeping
    \/ eeg_wake
    \/ eeg_unsubscribe_eeg
    \/ eeg_unsubscribe_accelerometer
    \/ eeg_close
    \/ handle_eeg_data
    \/ handle_eeg_data_csv
    \/ handle_eeg_data_write
    \/ handle_accelerometer_data
    \/ handle_accelerometer_data_csv
    \/ handle_accelerometer_data_write
    \/ signal_handler

Collect == CollectInit /\ [][CollectNext]_vars

(***************************************************************************)
(* Properties.                                                             *)
(***************************************************************************)
\* A dropout probability in [0, 1).
ValidDropout(p) == p >= 0 /\ p < 10

\* The time axis the convolution stack is specified to leave: T - L*(K-1).
ReducedTime(T, L, K) == T - L * (K - 1)

\* forward was called on a constructed module of class c.
ForwardOf(c) == args.cls = c /\ obj.ok /\ Invoked

\* C1: for every valid configuration of EEGFormerForRegression, construction
\* succeeds and forward on (batch, n_channels, sequence_length) returns
\* (batch, output_dim).
C1_ModelReturnsBatchByOutputDim ==
    (/\ args.cls = "EEGFormerForRegression"
     /\ Invoked
     /\ args.n_2d_cnn_layers >= 1
     /\ ValidDropout(args.dropout)
     /\ args.num_layers >= 1
     /\ args.input_dim % args.num_heads = 0
     /\ ReducedTime(args.sequence_length, args.n_2d_cnn_layers,
                    args.kernel_size) >= 1
     /\ inp[2] = args.n_channels
     /\ inp[3] = args.sequence_length)
    => (obj.ok /\ out.ok /\ out.shape = <<inp[1], args.output_dim>>)

\* C2: for L >= 1 layers of kernel size K >= 1 and an input (B, C, T) with
\* C = n_channels, T = sequence_length and T > L*(K-1), CNN1D.forward returns
\* the convolved features (B, C, D, T - L*(K-1)) permuted to
\* (B, C, T - L*(K-1), D).
C2_ConvolvedShape ==
    (/\ ForwardOf("CNN1D")
     /\ inp[2] = args.n_channels
     /\ inp[3] = args.sequence_length
     /\ ReducedTime(inp[3], args.n_1d_cnn_layers, args.kernel_size) >= 1)
    => (/\ out.ok
        /\ out.shape = <<inp[1], args.n_channels,
                         ReducedTime(inp[3], args.n_1d_cnn_layers,
                                     args.kernel_size),
                         args.convolution_dimension_length>>)

\* The stages of the encoder, in the order the claim gives them.
EncoderStages ==
    <<"regional_transformer", "synchronous_transformer", "temporal_transformer">>

\* The outcome of the encoder's stage i on x.
StageForward(self, i, x) ==
    IF i = 1 THEN RegionalTransformer_forward(self.regional_transformer, x)
    ELSE IF i = 2
    THEN SynchronousTransformer_forward(self.synchronous_transformer, x)
    ELSE TemporalTransformer_forward(self.temporal_transformer, x)

\* C3: for an EEGformerEncoder built from a valid configuration, forward(x)
\* is temporal(synchronous(regional(x))): the stages run in that order, the
\* first on x and each next one on the preceding stage's output, and the
\* result is the last stage's.
C3_EncoderComposesStages ==
    (/\ args.cls = "EEGformerEncoder"
     /\ Invoked
     /\ ValidDropout(args.dropout)
     /\ args.num_layers >= 1
     /\ args.input_dim % args.num_heads = 0)
    => (/\ obj.ok
        /\ Len(calls) >= 1
        /\ Len(calls) <= 3
        /\ \A i \in 1..Len(calls) : calls[i].fn = EncoderStages[i]
        /\ calls[1].arg = inp
        /\ \A i \in 2..Len(calls) :
              StageForward(obj, i - 1, calls[i - 1].arg) = Ok(calls[i].arg)
        /\ out = StageForward(obj, Len(calls), calls[Len(calls)].arg)
        /\ out.ok => Len(calls) = 3)

\* C4: a RegionalTransformer constructed with sequence_length S and
\* latent_dim Z, for any num_layers, maps an input (B, C, S, D) to
\* (B, C, D, Z).
C4_RegionalShape ==
    (/\ ForwardOf("RegionalTransformer")
     /\ inp[3] = args.sequence_length)
    => (/\ out.ok
        /\ out.shape = <<inp[1], inp[2], inp[4], args.latent_dim>>)

\* A regional forward on an input whose channel and feature-depth counts
\* differ, through at least one block, into a latent axis of another width
\* than the time axis.
C4_Witness ==
    /\ ForwardOf("RegionalTransformer")
    /\ inp[3] = args.sequence_length
    /\ args.num_layers >= 1
    /\ inp[2] # inp[4]
    /\ args.latent_dim # args.sequence_length
    /\ args.input_dim # args.latent_dim
    /\ out.ok
    /\ out.shape = <<inp[1], inp[2], inp[4], args.latent_dim>>

\* C5: a SynchronousTransformer with num_layers >= 1 maps every input
\* (B, C, D, Z) to (B, D, C, Z).
C5_SynchronousShape ==
    (/\ ForwardOf("SynchronousTransformer")
     /\ args.num_layers >= 1
     /\ inp[4] = args.latent_dim)
    => (/\ out.ok
        /\ out.shape = <<inp[1], inp[3], inp[2], args.latent_dim>>)

\* C6: a TemporalTransformer constructed with n_channels C, sequence_length S
\* and any latent_dim Z maps every input (B, D, C, S), for any D and any
\* verbose, to (B, D, Z).
C6_TemporalShape ==
    (/\ ForwardOf("TemporalTransformer")
     /\ inp[3] = args.n_channels
     /\ inp[4] = args.sequence_length)
    => (/\ out.ok
        /\ out.shape = <<inp[1], inp[2], args.latent_dim>>)

\* C7: the decoder maps a tensor whose trailing dimension is input_dim to one
\* whose trailing dimension is output_dim, the leading dimensions unchanged.
C7_DecoderShape ==
    (/\ ForwardOf("EEGformerDecoderForRegression")
     /\ Last(inp) = args.input_dim)
    => (/\ out.ok
        /\ out.shape = Front(inp) \o <<args.output_dim>>)

\* A decoder forward on a batched tensor, with three distinct widths.
C7_Witness ==
    /\ ForwardOf("EEGformerDecoderForRegression")
    /\ Len(inp) = 3
    /\ inp[1] = 2
    /\ Last(inp) = args.input_dim
    /\ args.hidden_dim # args.output_dim
    /\ args.input_dim # args.output_dim
    /\ out.ok
    /\ out.shape = <<inp[1], inp[2], args.output_dim>>

\* C8: CNN1D.forward ends in an error whenever the input's channel count is
\* not n_channels, or its time length is not sequence_length, or
\* T <= L*(K-1); and it never returns a tensor of another batch size.
C8_IncompatibleInputRaises ==
    ForwardOf("CNN1D")
    => (/\ (\/ inp[2] # args.n_channels
            \/ inp[3] # args.sequence_length
            \/ ReducedTime(inp[3], args.n_1d_cnn_layers, args.kernel_size) < 1)
           => ~out.ok
        /\ out.ok => out.shape[1] = inp[1])

\* C9: constructing CNN1D with n_1d_cnn_layers < 1, or one of the three
\* transformers with num_layers < 1, fails.
C9_LayerCountChecked ==
    /\ (args.cls = "CNN1D" /\ args.n_1d_cnn_layers < 1) => ~obj.ok
    /\ (/\ args.cls \in {"RegionalTransformer", "SynchronousTransformer",
                         "TemporalTransformer"}
        /\ args.num_layers < 1) => ~obj.ok

\* C10: no TransformerBlock, transformer, EEGformerEncoder or CNN1D (of any
\* layer count >= 1) is constructed with a dropout probability >= 1.0.
C10_DropoutChecked ==
    (/\ args.cls \in {"TransformerBlock", "RegionalTransformer",
                      "SynchronousTransformer", "TemporalTransformer",
                      "EEGformerEncoder", "CNN1D"}
     /\ args.dropout >= 10)
    => ~obj.ok

\* The three transformer stages.
TransformerStages ==
    {"RegionalTransformer", "SynchronousTransformer", "TemporalTransformer"}

\* C11: in a constructed RegionalTransformer, SynchronousTransformer or
\* TemporalTransformer, every block's attention width, feed-forward in/out
\* width and layer norms, and the positional parameter, are sized by the
\* stage's latent_dim, so every block accepts a tensor whose trailing
\* dimension is latent_dim.
C11_BlocksSizedByLatentDim ==
    (args.cls \in TransformerStages /\ obj.ok)
    => (/\ Last(obj.positional_encoding) = obj.latent_dim
        /\ \A i \in 1..Len(obj.layers) :
              /\ obj.layers[i].embed_dim = obj.latent_dim
              /\ obj.layers[i].feed_forward[1].in_features = obj.latent_dim
              /\ obj.layers[i].feed_forward[2].out_features = obj.latent_dim
              /\ obj.layers[i].layer_norm2 = obj.latent_dim
              /\ obj.layers[i].layer_norm3 = obj.latent_dim
              /\ TransformerBlock_forward(obj.layers[i],
                                          <<1, 1, obj.latent_dim>>).ok)

\* C12: for every constructed CNN1D, after the first layer and after every
\* subsequent layer, each feature map that the reshape attributes to EEG
\* channel c was computed from input channel c and from no other channel.
C12_ChannelsNotMixed ==
    (args.cls = "CNN1D" /\ obj.ok)
    => \A n \in 1..obj.n_1d_cnn_layers :
           \A j \in 1..(obj.n_channels * obj.convolution_dimension_length) :
               CNN1D_depends(obj, n)[j] \subseteq {CNN1D_channel_of(obj, j)}

\* C14: with dropout disabled, for every batch of two or more elements that
\* RegionalTransformer.forward accepts, the output for batch element b was
\* computed from input batch element b alone.
C14_BatchElementsIndependent ==
    (/\ ForwardOf("RegionalTransformer")
     /\ out.ok
     /\ args.dropout = 0
     /\ inp[1] >= 2)
    => \A b \in 1..inp[1] : RegionalTransformer_depends(obj, inp)[b] = {b}

\* The place of the first e in the log, 0 when there is none.
Pos(e) ==
    IF \E i \in 1..Len(log) : log[i] = e
    THEN CHOOSE i \in 1..Len(log) : log[i] = e /\ \A j \in 1..(i - 1) : log[j] # e
    ELSE 0

\* e1 happened, and then e2.
Before(e1, e2) == Pos(e1) > 0 /\ Pos(e1) < Pos(e2)

\* C13: when the script, its credentials filled in, is run directly, a run
\* that is not interrupted has installed signal_handler and collected for
\* the duration before it ends, and a SIGINT during collection ends it
\* through signal_handler: client closed, exit status 0.
C13_DirectRunCollectsAndHandlesSigint ==
    (/\ script.pc = "exited"
     /\ script.name = "__main__"
     /\ script.source = "credentials filled in")
    => (/\ script.by \notin Interrupts
           => (/\ script.sigint = "signal_handler"
               /\ Pos("wake") > 0
               /\ script.elapsed = script.duration)
        /\ (script.by \in Interrupts /\ log # <<>>)
           => (/\ script.by = "signal_handler"
               /\ script.status = 0
               /\ "client" \in closed))

\* C15: in eeg, both subscriptions are created before the wait, both are
\* ended after the wait and before write_api.close(), and no callback calls
\* write_api.write after write_api.close().
C15_NoWriteAfterClose ==
    /\ Pos("sleep") > 0
       => (/\ Before("subscribe eeg", "sleep")
           /\ Before("subscribe accelerometer", "sleep"))
    /\ Pos("close") > 0
       => (/\ Before("wake", "unsubscribe eeg")
           /\ Before("wake", "unsubscribe accelerometer")
           /\ Before("unsubscribe eeg", "close")
           /\ Before("unsubscribe accelerometer", "close"))
    /\ \A i \in 1..Len(log) : \A j \in (i + 1)..Len(log) :
           log[i] = "close"
           => log[j] \notin {"write eeg", "write accelerometer"}
====
